---- MODULE Spec2Model ----
(***************************************************************************)
(* A model of the multicast control-plane daemon of pymfcd                 *)
(* (src/src/mfc_daemon.py, src/src/kernel_ffi.py, src/src/validation.py).  *)
(*                                                                         *)
(* The daemon is single threaded: one request is processed completely      *)
(* before the next connection is accepted, so every request handler is one *)
(* atomic action.  The kernel multicast engine is the environment: it is   *)
(* modelled by its VIF table and its MFC table, and every control call may *)
(* be rejected (the fault input of a request names the calls the kernel    *)
(* rejects); a rejected call has no effect on the kernel tables.           *)
(*                                                                         *)
(* Interface names are modelled by naturals: 1..NumIf are interfaces the   *)
(* OS knows, 0 is a name the OS does not know, and 101.. are the           *)
(* interfaces of one large rule that nearly fills the 32 VIF slots.        *)
(***************************************************************************)
EXTENDS Integers, Sequences, FiniteSets, TLC

\* ------------------------------------------------------------------ bounds
NumIf == 2
MaxOifs == 1
MaxRules == 2
MaxFailures == 1
MaxRestarts == 1
MaxServed == 1

\* ------------------------------------------------------- program constants
MAXVIFS == 32

\* ------------------------------------------------------------ input sets
Existing == 1..NumIf
SmallNames == 0..NumIf
FillerCount == MAXVIFS - (NumIf - 1)
FillerNames == {100 + i : i \in 1..FillerCount}
FillerOifs == [i \in 1..(FillerCount - 1) |-> 101 + i]
Sources == {"10.0.1.10"}
Groups == {"239.1.1.1", "239.1.1.2"}
\* (source, group) pairs that are not a source address with a multicast
\* group: a source that is no address, a group with a field above 255, and
\* a unicast group.
BadAddresses == {<<"not-an-ip", "239.1.1.1">>, <<"10.0.1.10", "239.1.1.256">>,
                 <<"10.0.1.10", "10.1.1.1">>}
FillerGroup == "239.9.9.9"

RECURSIVE SeqsUpTo(_, _)
SeqsUpTo(S, n) ==
    IF n = 0 THEN {<<>>}
    ELSE LET shorter == SeqsUpTo(S, n - 1)
         IN  shorter \cup {Append(s, x) : s \in {t \in shorter : Len(t) = n - 1}, x \in S}

OifsInputs == SeqsUpTo(SmallNames, MaxOifs)

Range(s) == {s[i] : i \in 1..Len(s)}

Min(S) == CHOOSE x \in S : \A y \in S : x <= y

EmptyMap == [x \in {} |-> 0]

\* socket.if_nametoindex as used by get_ifindex: -1 stands for the OSError
\* that get_ifindex turns into ValueError.
get_ifindex(if_name) ==
    IF if_name \in Existing \cup FillerNames THEN 10 + if_name ELSE -1

\* The fault input of one request: add_vif = k > 0 makes the kernel reject
\* the k-th MRT_ADD_VIF of the request, del_vif = k > 0 the k-th MRT_DEL_VIF,
\* and add_mfc / del_mfc the MRT_ADD_MFC / MRT_DEL_MFC.  A rejected call
\* raises and ends the phase of the request it occurs in, so one rejection
\* per kind is all a request can observe.
MaxVifCalls == 1 + MaxOifs
Faults == [add_vif : 0..MaxVifCalls, del_vif : 0..MaxVifCalls,
           add_mfc : BOOLEAN, del_mfc : BOOLEAN]

VARIABLES vif_map, mfc_rules, sock, kvif, kmfc, pc, req, resp, calls, pre, txn,
          failures, state_file, running, life, served, replay, adds_only,
          ended, exit_log, step, stop_requested, ctl

vars == <<vif_map, mfc_rules, sock, kvif, kmfc, pc, req, resp, calls, pre, txn,
          failures, state_file, running, life, served, replay, adds_only,
          ended, exit_log, step, stop_requested, ctl>>

\* The variables of the step-by-step view of main_entrypoint and run(), and
\* the variables that view leaves alone.
runvars == <<step, stop_requested, ctl>>

corevars == <<vif_map, mfc_rules, sock, kvif, kmfc, pc, req, resp, calls, pre, txn,
              failures, state_file, life, served, replay, adds_only, ended,
              exit_log>>

\* ---------------------------------------------------------------- kernel
\* One kernel control call as the adapter issues it (setsockopt), with the
\* kernel's verdict.
Call(op, vifi, ifindex, source, group, parent, outs, ok, inj) ==
    [op |-> op, vifi |-> vifi, ifindex |-> ifindex, source |-> source,
     group |-> group, parent |-> parent, outs |-> outs, ok |-> ok, inj |-> inj]

VifCall(op, vifi, ifindex, ok, inj) ==
    Call(op, vifi, ifindex, "", "", -1, <<>>, ok, inj)

MfcCall(op, source, group, parent, outs, ok, inj) ==
    Call(op, -1, -1, source, group, parent, outs, ok, inj)

\* The daemon state threaded through one request: the in-memory state, the
\* kernel tables, the calls issued so far, and the pending exception
\* ("" when none).
Raise(d, e) == [d EXCEPT !.exc = e]

\* The number of calls of kind op issued so far in this request.
Issued(d, op) == Cardinality({i \in 1..Len(d.calls) : d.calls[i].op = op})

Without(m, k) == [x \in (DOMAIN m) \ {k} |-> m[x]]

\* F applied to the value of x, which is computed once: the result of one
\* statement handed to the statements that follow it.
Then(x, F(_)) == CHOOSE y \in {F(v) : v \in {x}} : TRUE

\* KernelInterface._add_vif: self.sock.fileno() raises AttributeError while
\* sock is None; otherwise MRT_ADD_VIF is issued and _check_call raises
\* OSError when the kernel rejects it (injected fault, slot in use, or slot
\* out of range).
_add_vif(d, f, vifi, ifindex) ==
    IF d.sock # "open" THEN Raise(d, "AttributeError")
    ELSE LET inj == f.add_vif = Issued(d, "add_vif") + 1
             ok == /\ ~inj
                   /\ vifi \notin DOMAIN d.kvif
                   /\ vifi \in 0..(MAXVIFS - 1)
         IN  [d EXCEPT !.calls = Append(@, VifCall("add_vif", vifi, ifindex, ok, inj)),
                       !.kvif = IF ok THEN (vifi :> ifindex) @@ @ ELSE @,
                       !.exc = IF ok THEN "" ELSE "OSError:MRT_ADD_VIF"]

\* KernelInterface._del_vif: MRT_DEL_VIF; rejected on an injected fault or
\* when the slot is not installed.
_del_vif(d, f, vifi, ifindex) ==
    IF d.sock # "open" THEN Raise(d, "AttributeError")
    ELSE LET inj == f.del_vif = Issued(d, "del_vif") + 1
             ok == /\ ~inj
                   /\ vifi \in DOMAIN d.kvif
         IN  [d EXCEPT !.calls = Append(@, VifCall("del_vif", vifi, ifindex, ok, inj)),
                       !.kvif = IF ok THEN Without(@, vifi) ELSE @,
                       !.exc = IF ok THEN "" ELSE "OSError:MRT_DEL_VIF"]

\* The decimal fields of an address string, split at the dots; <<>> when a
\* field is not a decimal number.  The strings are the ones the requests of
\* this model carry.
Parts(ip) ==
    CASE ip = "10.0.1.10" -> <<10, 0, 1, 10>>
      [] ip = "239.1.1.1" -> <<239, 1, 1, 1>>
      [] ip = "239.1.1.2" -> <<239, 1, 1, 2>>
      [] ip = "239.9.9.9" -> <<239, 9, 9, 9>>
      [] ip = "239.1.1.256" -> <<239, 1, 1, 256>>
      [] ip = "10.1.1.1" -> <<10, 1, 1, 1>>
      [] OTHER -> <<>>

\* socket.inet_aton on a four-field string: the four bytes, or <<>> for the
\* OSError raised when the string is not an address.
inet_aton(ip) ==
    IF Len(Parts(ip)) = 4 /\ \A i \in 1..4 : Parts(ip)[i] \in 0..255
    THEN Parts(ip) ELSE <<>>

\* int.from_bytes(b, "little"), the value stored in s_addr.
from_bytes_little(b) == b[1] + 256 * b[2] + 65536 * b[3] + 16777216 * b[4]

s_addr(ip) == from_bytes_little(inet_aton(ip))

\* The kernel's test of mfcc_mcastgrp: the first byte of the address (the
\* low byte of s_addr as stored) is in 224..239.
ipv4_is_multicast(a) == (a % 256) \div 16 = 14

\* KernelInterface._add_mfc: both addresses are converted first (OSError for
\* a string that is not an address), the ttl array gets a 1 for every output
\* vifi in 0..31, and MRT_ADD_MFC replaces the entry of (origin, mcastgrp)
\* or installs a new one; the kernel refuses a new entry whose group is
\* neither multicast nor 0.0.0.0.
_add_mfc(d, f, source_ip, group_ip, iif_vifi, oif_vifis) ==
    IF inet_aton(source_ip) = <<>> \/ inet_aton(group_ip) = <<>>
    THEN Raise(d, "OSError:inet_aton")
    ELSE IF d.sock # "open" THEN Raise(d, "AttributeError")
    ELSE LET key == <<s_addr(source_ip), s_addr(group_ip)>>
             ok == /\ ~f.add_mfc
                   /\ \/ key \in DOMAIN d.kmfc
                      \/ key[2] = 0
                      \/ ipv4_is_multicast(key[2])
             ttls == {v \in Range(oif_vifis) : 0 <= v /\ v < MAXVIFS}
             entry == [parent |-> iif_vifi, ttls |-> ttls]
         IN  [d EXCEPT !.calls = Append(@, MfcCall("add_mfc", source_ip, group_ip,
                                                  iif_vifi, oif_vifis, ok, f.add_mfc)),
                       !.kmfc = IF ok THEN (key :> entry) @@ @ ELSE @,
                       !.exc = IF ok THEN "" ELSE "OSError:MRT_ADD_MFC"]

\* KernelInterface._del_mfc: both addresses are converted first, then
\* MRT_DEL_MFC is issued; it is rejected on an injected fault or when the
\* kernel has no entry for (origin, mcastgrp) (ENOENT).
_del_mfc(d, f, source_ip, group_ip) ==
    IF inet_aton(source_ip) = <<>> \/ inet_aton(group_ip) = <<>>
    THEN Raise(d, "OSError:inet_aton")
    ELSE IF d.sock # "open" THEN Raise(d, "AttributeError")
    ELSE LET key == <<s_addr(source_ip), s_addr(group_ip)>>
             ok == /\ ~f.del_mfc
                   /\ key \in DOMAIN d.kmfc
         IN  [d EXCEPT !.calls = Append(@, MfcCall("del_mfc", source_ip, group_ip,
                                                  -1, <<>>, ok, f.del_mfc)),
                       !.kmfc = IF ok THEN Without(@, key) ELSE @,
                       !.exc = IF ok THEN "" ELSE "OSError:MRT_DEL_MFC"]

\* ---------------------------------------------------------- VIF registry
\* Mutant of _find_next_vifi: the index after the highest one held, falling
\* back to the lowest free index when that is out of range.
_find_next_vifi_highest(vm) ==
    LET used_vifis == {vm[n].vifi : n \in DOMAIN vm}
        free == (0..(MAXVIFS - 1)) \ used_vifis
        above == {v \in free : \A u \in used_vifis : u < v}
    IN  IF free = {} THEN -1
        ELSE IF above # {} THEN Min(above) ELSE Min(free)

\* Mutant of _find_next_vifi: the search goes one index past the table, so
\* a full table yields index 32 instead of RuntimeError.
_find_next_vifi_unbounded(vm) ==
    LET used_vifis == {vm[n].vifi : n \in DOMAIN vm}
    IN  Min((0..MAXVIFS) \ used_vifis)

\* MfcDaemon._find_next_vifi: the lowest index of range(32) that no binding
\* holds; -1 stands for RuntimeError("Maximum number of VIFs (32) reached.").
_find_next_vifi(vm) ==
    LET used_vifis == {vm[n].vifi : n \in DOMAIN vm}
        free == (0..(MAXVIFS - 1)) \ used_vifis
    IN  IF free = {} THEN -1 ELSE Min(free)

\* Mutant of _get_or_create_vif: a new binding takes the number of bindings
\* as its index (a running counter) and is recorded whatever the kernel
\* answered to add_vif.
_get_or_create_vif_unchecked(d, f, if_name) ==
    IF if_name \in DOMAIN d.vif_map
    THEN [d |-> [d EXCEPT !.vif_map[if_name].ref_count = @ + 1],
          vifi |-> d.vif_map[if_name].vifi]
    ELSE LET vifi == Cardinality(DOMAIN d.vif_map)
             ifindex == get_ifindex(if_name)
         IN  IF ifindex = -1 THEN [d |-> Raise(d, "ValueError"), vifi |-> -1]
             ELSE LET d1 == _add_vif(d, f, vifi, ifindex)
                  IN  [d |-> [d1 EXCEPT !.exc = "",
                                        !.vif_map =
                                      (if_name :> [vifi |-> vifi, ref_count |-> 1,
                                                   ifindex |-> ifindex]) @@ @],
                       vifi |-> vifi]

\* Mutant of _get_or_create_vif: a name that already has a binding gets its
\* vifi back without its ref_count being incremented.
_get_or_create_vif_uncounted(d, f, if_name) ==
    IF if_name \in DOMAIN d.vif_map
    THEN [d |-> d, vifi |-> d.vif_map[if_name].vifi]
    ELSE LET vifi == _find_next_vifi(d.vif_map)
             ifindex == get_ifindex(if_name)
         IN  IF vifi = -1 THEN [d |-> Raise(d, "RuntimeError"), vifi |-> -1]
             ELSE IF ifindex = -1 THEN [d |-> Raise(d, "ValueError"), vifi |-> -1]
             ELSE LET d1 == _add_vif(d, f, vifi, ifindex)
                  IN  IF d1.exc # "" THEN [d |-> d1, vifi |-> -1]
                      ELSE [d |-> [d1 EXCEPT !.vif_map =
                                      (if_name :> [vifi |-> vifi, ref_count |-> 1,
                                                   ifindex |-> ifindex]) @@ @],
                            vifi |-> vifi]

\* MfcDaemon._get_or_create_vif: returns the state after the call and the
\* vifi returned (meaningless when an exception is pending).
_get_or_create_vif(d, f, if_name) ==
    IF if_name \in DOMAIN d.vif_map
    THEN [d |-> [d EXCEPT !.vif_map[if_name].ref_count = @ + 1],
          vifi |-> d.vif_map[if_name].vifi]
    ELSE LET vifi == _find_next_vifi(d.vif_map)
             ifindex == get_ifindex(if_name)
         IN  IF vifi = -1 THEN [d |-> Raise(d, "RuntimeError"), vifi |-> -1]
             ELSE IF ifindex = -1 THEN [d |-> Raise(d, "ValueError"), vifi |-> -1]
             ELSE LET d1 == _add_vif(d, f, vifi, ifindex)
                  IN  IF d1.exc # "" THEN [d |-> d1, vifi |-> -1]
                      ELSE [d |-> [d1 EXCEPT !.vif_map =
                                      (if_name :> [vifi |-> vifi, ref_count |-> 1,
                                                   ifindex |-> ifindex]) @@ @],
                            vifi |-> vifi]

\* Mutant of _release_vif: the VIF is deleted only when the count is < 0.
_release_vif_below_zero(d, f, if_name) ==
    IF if_name \notin DOMAIN d.vif_map THEN d
    ELSE LET d1 == [d EXCEPT !.vif_map[if_name].ref_count = @ - 1]
         IN  IF d1.vif_map[if_name].ref_count < 0
             THEN LET d2 == _del_vif(d1, f, d1.vif_map[if_name].vifi,
                                     d1.vif_map[if_name].ifindex)
                  IN  IF d2.exc # "" THEN d2
                      ELSE [d2 EXCEPT !.vif_map = Without(@, if_name)]
             ELSE d1

\* Mutant of _release_vif: the binding is removed before the kernel is asked
\* to delete the VIF.
_release_vif_binding_first(d, f, if_name) ==
    IF if_name \notin DOMAIN d.vif_map THEN d
    ELSE LET d1 == [d EXCEPT !.vif_map[if_name].ref_count = @ - 1]
         IN  IF d1.vif_map[if_name].ref_count <= 0
             THEN _del_vif([d1 EXCEPT !.vif_map = Without(@, if_name)], f,
                           d1.vif_map[if_name].vifi, d1.vif_map[if_name].ifindex)
             ELSE d1

\* MfcDaemon._release_vif: an unknown name is ignored; the count is
\* decremented first, and when it is <= 0 the VIF is deleted in the kernel
\* and then the binding is removed.  When _del_vif raises, the binding stays
\* with its decremented count.
_release_vif(d, f, if_name) ==
    IF if_name \notin DOMAIN d.vif_map THEN d
    ELSE LET d1 == [d EXCEPT !.vif_map[if_name].ref_count = @ - 1]
         IN  IF d1.vif_map[if_name].ref_count <= 0
             THEN LET d2 == _del_vif(d1, f, d1.vif_map[if_name].vifi,
                                     d1.vif_map[if_name].ifindex)
                  IN  IF d2.exc # "" THEN d2
                      ELSE [d2 EXCEPT !.vif_map = Without(@, if_name)]
             ELSE d1

\* ------------------------------------------------------------ controller
\* Lines 52-55 of add_mfc_rule: acquire names[i..] in order, stopping at the
\* first exception; vifis collects the indices returned so far.
RECURSIVE AcquireFrom(_, _, _, _, _)
AcquireFrom(d, f, names, i, vifis) ==
    IF i > Len(names) THEN [d |-> d, vifis |-> vifis]
    ELSE Then(_get_or_create_vif(d, f, names[i]), LAMBDA r :
             IF r.d.exc # "" THEN [d |-> r.d, vifis |-> vifis]
             ELSE AcquireFrom(r.d, f, names, i + 1, Append(vifis, r.vifi)))

\* Lines 69-70 of add_mfc_rule: the rollback loop releases every name of
\* interfaces_used in list order; an exception of _release_vif leaves the
\* loop.  n counts the _release_vif calls made, and done lists, in the
\* order of the calls, the names whose ref_count a call decremented (a call
\* for a name without a binding only prints a warning).
RECURSIVE ReleaseFrom(_, _, _, _, _)
ReleaseFrom(d, f, names, i, done) ==
    IF i > Len(names) THEN [d |-> d, n |-> i - 1, done |-> done]
    ELSE Then(_release_vif(d, f, names[i]), LAMBDA d1 :
             LET hit == IF names[i] \in DOMAIN d.vif_map THEN <<names[i]>> ELSE <<>>
             IN  IF d1.exc # "" THEN [d |-> d1, n |-> i, done |-> done \o hit]
                 ELSE ReleaseFrom(d1, f, names, i + 1, done \o hit))

\* Mutant of add_mfc_rule: the output interfaces are acquired before the
\* input interface.
add_mfc_rule_oifs_first(d, f, source, group, iif, oifs) ==
    LET interfaces_used == oifs \o <<iif>>
    IN  Then(AcquireFrom(d, f, interfaces_used, 1, <<>>), LAMBDA a :
        Then(IF a.d.exc # "" THEN a.d
             ELSE _add_mfc(a.d, f, source, group, a.vifis[Len(a.vifis)],
                           SubSeq(a.vifis, 1, Len(a.vifis) - 1)), LAMBDA m :
        LET acquired == SubSeq(interfaces_used, 1, Len(a.vifis))
        IN  IF m.exc = ""
            THEN [d |-> [m EXCEPT !.mfc_rules =
                            Append(@, [source |-> source, group |-> group,
                                       iif |-> iif, oifs |-> oifs])],
                  orig |-> "", acquired |-> acquired, released |-> 0,
                  done |-> <<>>]
            ELSE Then(ReleaseFrom(Raise(m, ""), f, interfaces_used, 1, <<>>), LAMBDA r :
                 [d |-> IF r.d.exc # "" THEN r.d ELSE Raise(r.d, m.exc),
                  orig |-> m.exc, acquired |-> acquired, released |-> r.n,
                  done |-> r.done])))

\* MfcDaemon.add_mfc_rule.  Returns the state after the call (exc = the
\* exception that leaves the call, "" on success), the exception that
\* started the rollback, the names acquired before it, the number of
\* _release_vif calls of the rollback, and the names these calls released.
add_mfc_rule(d, f, source, group, iif, oifs) ==
    LET interfaces_used == <<iif>> \o oifs
    IN  Then(AcquireFrom(d, f, interfaces_used, 1, <<>>), LAMBDA a :
        Then(IF a.d.exc # "" THEN a.d
             ELSE _add_mfc(a.d, f, source, group, a.vifis[1],
                           SubSeq(a.vifis, 2, Len(a.vifis))), LAMBDA m :
        LET acquired == SubSeq(interfaces_used, 1, Len(a.vifis))
        IN  IF m.exc = ""
            THEN [d |-> [m EXCEPT !.mfc_rules =
                            Append(@, [source |-> source, group |-> group,
                                       iif |-> iif, oifs |-> oifs])],
                  orig |-> "", acquired |-> acquired, released |-> 0,
                  done |-> <<>>]
            ELSE Then(ReleaseFrom(Raise(m, ""), f, interfaces_used, 1, <<>>), LAMBDA r :
                 [d |-> IF r.d.exc # "" THEN r.d ELSE Raise(r.d, m.exc),
                  orig |-> m.exc, acquired |-> acquired, released |-> r.n,
                  done |-> r.done])))

\* Lines 126-129 of del_mfc_rule: the index of the first rule with the key,
\* 0 when there is none.
FindRule(rules, source, group) ==
    LET hits == {i \in 1..Len(rules) :
                    rules[i].source = source /\ rules[i].group = group}
    IN  IF hits = {} THEN 0 ELSE Min(hits)

RemoveAt(s, i) == SubSeq(s, 1, i - 1) \o SubSeq(s, i + 1, Len(s))

\* list.remove(x): removes the first element equal to x.
ListRemove(s, x) == RemoveAt(s, Min({i \in 1..Len(s) : s[i] = x}))

\* Mutant of del_mfc_rule: MRT_DEL_MFC is issued before the rule list is
\* searched.
del_mfc_rule_kernel_first(d, f, source, group) ==
    LET k == FindRule(d.mfc_rules, source, group)
    IN  Then(_del_mfc(d, f, source, group), LAMBDA d1 :
        IF d1.exc # ""
        THEN [d |-> Raise(d1, ""), success |-> FALSE, message |-> d1.exc,
              raised |-> TRUE]
        ELSE IF k = 0
        THEN [d |-> d1, success |-> FALSE, message |-> "not found",
              raised |-> FALSE]
        ELSE Then([d1 EXCEPT !.mfc_rules = ListRemove(@, d.mfc_rules[k])],
                  LAMBDA d2 :
             Then(ReleaseFrom(d2, f, <<d.mfc_rules[k].iif>> \o d.mfc_rules[k].oifs, 1, <<>>),
                  LAMBDA r :
             IF r.d.exc # ""
             THEN [d |-> Raise(r.d, ""), success |-> FALSE,
                   message |-> r.d.exc, raised |-> TRUE]
             ELSE [d |-> r.d, success |-> TRUE, message |-> "deleted",
                   raised |-> FALSE])))

\* MfcDaemon.del_mfc_rule: every exception is caught and turned into
\* (False, str(e)); exc is "" on return and raised tells whether the except
\* clause ran.
del_mfc_rule(d, f, source, group) ==
    LET k == FindRule(d.mfc_rules, source, group)
    IN  IF k = 0 THEN [d |-> d, success |-> FALSE, message |-> "not found",
                       raised |-> FALSE]
        ELSE LET rule_to_del == d.mfc_rules[k]
             IN  Then(_del_mfc(d, f, source, group), LAMBDA d1 :
                 IF d1.exc # ""
                 THEN [d |-> Raise(d1, ""), success |-> FALSE, message |-> d1.exc,
                       raised |-> TRUE]
                 ELSE Then([d1 EXCEPT !.mfc_rules = ListRemove(@, rule_to_del)],
                           LAMBDA d2 :
                      Then(ReleaseFrom(d2, f, <<rule_to_del.iif>> \o rule_to_del.oifs, 1, <<>>),
                           LAMBDA r :
                      IF r.d.exc # ""
                      THEN [d |-> Raise(r.d, ""), success |-> FALSE,
                            message |-> r.d.exc, raised |-> TRUE]
                      ELSE [d |-> r.d, success |-> TRUE, message |-> "deleted",
                            raised |-> FALSE])))

\* ------------------------------------------------------------ validation
\* A command carries, besides the values of its fields, the set of keys the
\* JSON document has (keys) and the set of those whose value has the JSON
\* type the schema names (typed).
IsUnique(s) == \A i, j \in 1..Len(s) : s[i] = s[j] => i = j

\* The "required" lists of add_mfc_rule_schema and del_mfc_rule_schema.
Required(action) ==
    IF action = "ADD_MFC" THEN {"source", "group", "iif", "oifs"}
    ELSE IF action = "DEL_MFC" THEN {"source", "group"}
    ELSE {}

\* Mutant of validate: only base_command_schema and the action table are
\* applied; the payload is returned without checking it against a schema.
validate_base_only(command) ==
    IF "action" \notin command.keys
    THEN "Invalid command structure: required"
    ELSE IF "action" \notin command.typed
    THEN "Invalid command structure: type"
    ELSE IF command.action \notin {"ADD_MFC", "DEL_MFC", "SHOW"}
    THEN "Unknown action"
    ELSE ""

\* CommandValidator.validate with base_command_schema and then
\* add_mfc_rule_schema / del_mfc_rule_schema: "" when the command is
\* accepted, else the error message.  "format" is not checked (validate is
\* called without a format checker).
validate(command) ==
    IF "action" \notin command.keys
    THEN "Invalid command structure: required"
    ELSE IF "action" \notin command.typed
    THEN "Invalid command structure: type"
    ELSE IF command.action \notin {"ADD_MFC", "DEL_MFC", "SHOW"}
    THEN "Unknown action"
    ELSE IF command.action = "SHOW" THEN ""
    ELSE IF ~(Required(command.action) \subseteq command.keys)
    THEN "Invalid payload: required"
    ELSE IF \E k \in command.keys \ {"action"} : k \notin command.typed
    THEN "Invalid payload: type"
    ELSE IF command.action = "ADD_MFC" /\ Len(command.oifs) < 1
    THEN "Invalid ADD_MFC payload: minItems"
    ELSE IF command.action = "ADD_MFC" /\ ~IsUnique(command.oifs)
    THEN "Invalid ADD_MFC payload: uniqueItems"
    ELSE ""

NoTxn == [orig |-> "", acquired |-> <<>>, released |-> 0, done |-> <<>>]

\* The "payload" of a response; empty in the responses that carry none.
NoPayload == [vif_map |-> EmptyMap, mfc_rules |-> <<>>]

\* Mutant of show_payload: the payload carries the rule list only.
show_payload_rules_only(d) == [vif_map |-> EmptyMap, mfc_rules |-> d.mfc_rules]

\* The payload of the SHOW response: the vif_map and the rule list.
show_payload(d) == [vif_map |-> d.vif_map, mfc_rules |-> d.mfc_rules]

\* MfcDaemon._handle_command: the state after the request, the response,
\* what add_mfc_rule did (NoTxn when it was not called), whether the core
\* operation was called, and whether an exception was raised inside it.
_handle_command(d, f, command) ==
    LET error_message == validate(command)
    IN  IF error_message # ""
        THEN [d |-> d, status |-> "error", message |-> "Validation failed",
              payload |-> NoPayload, txn |-> NoTxn, called |-> FALSE,
              raised |-> FALSE]
        ELSE IF command.action = "ADD_MFC"
        THEN Then(add_mfc_rule(d, f, command.source, command.group,
                               command.iif, command.oifs), LAMBDA r :
                 [d |-> Raise(r.d, ""),
                  status |-> IF r.d.exc = "" THEN "success" ELSE "error",
                  message |-> r.d.exc, payload |-> NoPayload,
                  txn |-> [orig |-> r.orig, acquired |-> r.acquired,
                           released |-> r.released, done |-> r.done],
                  called |-> TRUE, raised |-> r.orig # ""])
        ELSE IF command.action = "DEL_MFC"
        THEN Then(del_mfc_rule(d, f, command.source, command.group), LAMBDA r :
                 [d |-> r.d,
                  status |-> IF r.success THEN "success" ELSE "error",
                  message |-> r.message, payload |-> NoPayload,
                  txn |-> NoTxn, called |-> TRUE,
                  raised |-> r.raised])
        ELSE [d |-> d, status |-> "success", message |-> "",
              payload |-> show_payload(d), txn |-> NoTxn, called |-> FALSE,
              raised |-> FALSE]

\* ---------------------------------------------------------------- actions
Snapshot(vm, rules, kv, km) ==
    [vif_map |-> vm, mfc_rules |-> rules, kvif |-> kv, kmfc |-> km]

\* A well-formed command document: the action and the fields its schema
\* requires, each with a value of the right JSON type.
Command(action, source, group, iif, oifs) ==
    [action |-> action, source |-> source, group |-> group, iif |-> iif,
     oifs |-> oifs,
     keys |-> IF action = "" THEN {} ELSE {"action"} \cup Required(action),
     typed |-> IF action = "" THEN {} ELSE {"action"} \cup Required(action)]

NoCommand == Command("", "", "", -1, <<>>)

\* The document c without the keys in missing and with a value of another
\* JSON type under the keys in mistyped.
Malformed(c, missing, mistyped) ==
    [c EXCEPT !.keys = @ \ missing, !.typed = @ \ (missing \cup mistyped)]

\* Documents the schemas do not admit: no action, an action that is not a
\* string, an unknown action, an ADD_MFC without oifs, a DEL_MFC without
\* group, and an ADD_MFC whose iif is a number.
InvalidCommands ==
    LET add == Command("ADD_MFC", "10.0.1.10", "239.1.1.1", 1, <<2>>)
        del == Command("DEL_MFC", "10.0.1.10", "239.1.1.1", -1, <<>>)
    IN  {Malformed(add, {"action"}, {}),
         Malformed(add, {}, {"action"}),
         Command("FLUSH", "", "", -1, <<>>),
         Malformed(add, {"oifs"}, {}),
         Malformed(del, {"group"}, {}),
         Malformed(add, {}, {"iif"})}

NoFault == [add_vif |-> 0, del_vif |-> 0, add_mfc |-> FALSE, del_mfc |-> FALSE]

\* The number of rejections a fault input asks for.
Weight(f) ==
    (IF f.add_vif > 0 THEN 1 ELSE 0) + (IF f.del_vif > 0 THEN 1 ELSE 0)
    + (IF f.add_mfc THEN 1 ELSE 0) + (IF f.del_mfc THEN 1 ELSE 0)

\* The faults a request can observe: none when the validator rejects it or
\* when the run has used up its failing requests, and no more rejected VIF
\* calls than it names interfaces.
FaultsFor(command, left) ==
    IF validate(command) # "" \/ command.action = "SHOW" \/ left = 0
    THEN {NoFault}
    ELSE LET n == IF command.action = "ADD_MFC" THEN 1 + Len(command.oifs)
                  ELSE MaxVifCalls
             k == IF n < MaxVifCalls THEN n ELSE MaxVifCalls
         IN  {f \in Faults :
                 /\ f.del_vif <= k
                 /\ command.action = "ADD_MFC" => f.add_vif <= k /\ ~f.del_mfc
                 /\ command.action = "DEL_MFC" => f.add_vif = 0 /\ ~f.add_mfc}

Fresh(s) ==
    [vif_map |-> EmptyMap, mfc_rules |-> <<>>, sock |-> s, kvif |-> EmptyMap,
     kmfc |-> EmptyMap, calls |-> <<>>, exc |-> ""]

\* The state of a serving daemon whose only request so far installed the
\* rule over the filler interfaces.
Filled ==
    add_mfc_rule(Fresh("open"), NoFault, "10.0.1.10", FillerGroup, 101, FillerOifs).d

\* -------------------------------------------------------------- lifecycle
\* The state file: absent, or the document save_state wrote.
\* complete tells whether the file holds a whole JSON document.
NoFile ==
    [exists |-> FALSE, complete |-> FALSE, vif_map |-> EmptyMap, mfc_rules |-> <<>>]

\* A state file that was opened for writing and not written to the end: an
\* empty file or the beginning of a document.
Truncated ==
    [exists |-> TRUE, complete |-> FALSE, vif_map |-> EmptyMap, mfc_rules |-> <<>>]

\* What the file system does to one save_state: the write goes through, open
\* fails (the file is not touched), or the write stops after open has
\* truncated the file (I/O error, or the process is killed).
SaveOutcomes == {"written", "open_fails", "write_fails"}

\* MfcDaemon.save_state: the file is opened for writing and the vif_map and
\* the rule list are dumped into it.
\* Returns the file afterwards and the exception that leaves the call.
save_state(d, file, io) ==
    IF io = "open_fails" THEN [file |-> file, exc |-> "OSError:open"]
    ELSE IF io = "write_fails" THEN [file |-> Truncated, exc |-> "OSError:write"]
    ELSE [file |-> [exists |-> TRUE, complete |-> TRUE, vif_map |-> d.vif_map,
                    mfc_rules |-> d.mfc_rules],
          exc |-> ""]

\* Lines 173-181 of load_state: add_mfc_rule for rules[i..] in order.  The
\* loop is inside the try block, so the first exception of add_mfc_rule
\* leaves the loop and is swallowed by "except Exception".  attempted counts
\* the add_mfc_rule calls made.
RECURSIVE ReplayFrom(_, _, _)
ReplayFrom(d, rules, i) ==
    IF i > Len(rules) THEN [d |-> d, attempted |-> i - 1]
    ELSE Then(add_mfc_rule(d, NoFault, rules[i].source, rules[i].group,
                           rules[i].iif, rules[i].oifs).d, LAMBDA d1 :
             IF d1.exc # "" THEN [d |-> Raise(d1, ""), attempted |-> i]
             ELSE ReplayFrom(d1, rules, i + 1))

\* Mutant of load_state: the JSONDecodeError of json.load is not caught.
load_state_uncaught(d, file) ==
    IF ~file.exists THEN [d |-> d, attempted |-> 0]
    ELSE IF ~file.complete THEN [d |-> Raise(d, "JSONDecodeError"), attempted |-> 0]
    ELSE ReplayFrom([d EXCEPT !.vif_map = EmptyMap, !.mfc_rules = <<>>],
                    file.mfc_rules, 1)

\* MfcDaemon.load_state: nothing happens without a state file; json.load of
\* a file that is not a whole document raises JSONDecodeError, which is
\* caught and printed before anything was cleared; otherwise the in-memory
\* state is cleared and the persisted rules are replayed.
load_state(d, file) ==
    IF ~file.exists THEN [d |-> d, attempted |-> 0]
    ELSE IF ~file.complete THEN [d |-> d, attempted |-> 0]
    ELSE ReplayFrom([d EXCEPT !.vif_map = EmptyMap, !.mfc_rules = <<>>],
                    file.mfc_rules, 1)

\* Mutant of mrt_done: the socket is closed and forgotten only after an
\* accepted MRT_DONE (no finally clause).
mrt_done_no_finally(d, ok) ==
    IF d.sock = "None" THEN d
    ELSE LET accepted == ok /\ d.sock = "open"
         IN  [d EXCEPT !.calls = Append(@, VifCall("mrt_done", -1, -1, accepted, ~ok)),
                       !.sock = IF accepted THEN "None" ELSE @,
                       !.kvif = IF accepted THEN EmptyMap ELSE @,
                       !.kmfc = IF accepted THEN EmptyMap ELSE @,
                       !.exc = IF accepted THEN "" ELSE "OSError:MRT_DONE"]

\* KernelInterface.mrt_done: nothing without a socket; otherwise MRT_DONE is
\* issued, _check_call raises OSError when the kernel rejects it (ok is
\* FALSE, or the socket does not own the engine), and in both cases the
\* finally clause closes the socket and forgets it.  MRT_DONE, and the close
\* of the socket that owns the engine, make the kernel drop its VIF and MFC
\* tables.
mrt_done(d, ok) ==
    IF d.sock = "None" THEN d
    ELSE LET accepted == ok /\ d.sock = "open"
         IN  [d EXCEPT !.calls = Append(@, VifCall("mrt_done", -1, -1, accepted, ~ok)),
                       !.sock = "None",
                       !.kvif = IF d.sock = "open" THEN EmptyMap ELSE @,
                       !.kmfc = IF d.sock = "open" THEN EmptyMap ELSE @,
                       !.exc = IF accepted THEN "" ELSE "OSError:MRT_DONE"]

NoResp == [status |-> "", message |-> "", payload |-> NoPayload, called |-> FALSE]

NoPre == Snapshot(EmptyMap, <<>>, EmptyMap, EmptyMap)

\* The control socket of run(): whether a socket file of an earlier run is
\* at the path, whether the socket is bound and listening, and the group and
\* mode of its file ("default" is what bind gives it).
NoSocket ==
    [stale |-> FALSE, bound |-> FALSE, listening |-> FALSE, group |-> "default",
     mode |-> "default", pending |-> 0]

\* The daemon as constructed by MfcDaemon.__init__ in a process started
\* without a state file, or the serving daemon of such a process with the
\* filler rule installed.
Init ==
    /\ \/ /\ pc = "init"
          /\ sock = "None"
          /\ running = FALSE
          /\ vif_map = EmptyMap
          /\ mfc_rules = <<>>
          /\ kvif = EmptyMap
          /\ kmfc = EmptyMap
       \/ /\ pc = "serving"
          /\ sock = "open"
          /\ running = TRUE
          /\ vif_map = Filled.vif_map
          /\ mfc_rules = Filled.mfc_rules
          /\ kvif = Filled.kvif
          /\ kmfc = Filled.kmfc
    /\ req = NoCommand
    /\ resp = NoResp
    /\ calls = <<>>
    /\ pre = NoPre
    /\ txn = NoTxn
    /\ failures = 0
    /\ state_file = NoFile
    /\ life = 0
    /\ served = 0
    /\ replay = 0
    /\ adds_only = TRUE
    /\ ended = ""
    /\ exit_log = <<>>
    /\ step = ""
    /\ stop_requested = FALSE
    /\ ctl = NoSocket

\* The first step of main_entrypoint after the signal handlers are
\* registered: load_state, called before the engine is opened.
Load ==
    /\ pc = "init"
    /\ \E l \in {load_state([vif_map |-> vif_map, mfc_rules |-> mfc_rules,
                             sock |-> sock, kvif |-> kvif, kmfc |-> kmfc,
                             calls |-> <<>>, exc |-> ""], state_file)} :
          /\ vif_map' = l.d.vif_map
          /\ mfc_rules' = l.d.mfc_rules
          /\ kvif' = l.d.kvif
          /\ kmfc' = l.d.kmfc
          /\ calls' = l.d.calls
          /\ replay' = l.attempted
          /\ pc' = IF l.d.exc = "" THEN "loaded" ELSE "stopped"
          /\ ended' = IF l.d.exc = "" THEN ended ELSE "exception"
    /\ UNCHANGED <<sock, req, resp, pre, txn, failures, state_file, running,
                   life, served, adds_only, exit_log>>
    /\ UNCHANGED runvars

\* KernelInterface.mrt_init as called by main_entrypoint after load_state:
\* the raw socket is stored in sock, then MRT_INIT either succeeds and run()
\* sets the running flag and enters the accept loop, or is rejected and the
\* exception takes main_entrypoint to its finally block.
mrt_init ==
    /\ pc = "loaded"
    /\ \E ok \in BOOLEAN :
          /\ sock' = IF ok THEN "open" ELSE "raw"
          /\ pc' = IF ok THEN "serving" ELSE "stopped"
          /\ running' = ok
          /\ ended' = IF ok THEN ended ELSE "exception"
    /\ UNCHANGED <<vif_map, mfc_rules, kvif, kmfc, req, resp, calls, pre, txn,
                   failures, state_file, life, served, replay, adds_only, exit_log>>
    /\ UNCHANGED runvars

\* The number of calls of a request that the kernel rejected on an injected
\* fault.
Injected(cs) == Cardinality({i \in 1..Len(cs) : cs[i].inj})

\* One iteration of the accept loop of run(), entered while the daemon is
\* serving: a connection is accepted, its request is received and answered
\* by _handle_command.
Serve(command) ==
    /\ life = 0 \/ served < MaxServed
    /\ \E f \in FaultsFor(command, MaxFailures - failures) :
        \E h \in {_handle_command(
                    [vif_map |-> vif_map, mfc_rules |-> mfc_rules, sock |-> sock,
                     kvif |-> kvif, kmfc |-> kmfc, calls |-> <<>>, exc |-> ""],
                    f, command)} :
          /\ Len(h.d.mfc_rules) <= MaxRules
          /\ Injected(h.d.calls) = Weight(f)
          /\ failures' = failures + (IF h.raised THEN 1 ELSE 0)
          /\ failures' <= MaxFailures
          /\ vif_map' = h.d.vif_map
          /\ mfc_rules' = h.d.mfc_rules
          /\ kvif' = h.d.kvif
          /\ kmfc' = h.d.kmfc
          /\ calls' = h.d.calls
          /\ resp' = [status |-> h.status, message |-> h.message,
                      payload |-> h.payload, called |-> h.called]
          /\ txn' = h.txn
          /\ adds_only' = (/\ adds_only
                           /\ \/ command.action = "SHOW"
                              \/ command.action = "ADD_MFC" /\ h.status = "success")
    /\ req' = command
    /\ pre' = Snapshot(vif_map, mfc_rules, kvif, kmfc)
    /\ pc' = "answered"
    /\ served' = IF life = 0 THEN 0 ELSE served + 1
    /\ UNCHANGED <<sock, state_file, running, life, replay, ended, exit_log>>
    /\ UNCHANGED runvars

AddRequest ==
    \E source \in Sources, group \in Groups, iif \in SmallNames,
       oifs \in OifsInputs :
        /\ pc = "serving"
        /\ Serve(Command("ADD_MFC", source, group, iif, oifs))

\* An ADD_MFC over two existing interfaces whose source or group is not
\* usable as an address pair.
BadAddressRequest ==
    \E a \in BadAddresses :
        /\ pc = "serving"
        /\ Serve(Command("ADD_MFC", a[1], a[2], 1, <<2>>))

DelRequest ==
    \E source \in Sources, group \in Groups \cup {FillerGroup} :
        /\ pc = "serving"
        /\ Serve(Command("DEL_MFC", source, group, -1, <<>>))

\* A request whose document the schemas do not admit.
InvalidRequest ==
    \E c \in InvalidCommands :
        /\ pc = "serving"
        /\ Serve(c)

ShowRequest ==
    /\ pc = "serving"
    /\ Serve(Command("SHOW", "", "", -1, <<>>))

\* The connection is closed (end of "with conn") and the loop of run()
\* tests the running flag: it goes back to accept, or it ends when a signal
\* has cleared the flag.  The record of the finished request is dropped.
NextConnection ==
    /\ pc = "answered"
    /\ pc' = IF running THEN "serving" ELSE "stopped"
    /\ ended' = IF running THEN ended ELSE "signal"
    /\ req' = NoCommand
    /\ resp' = NoResp
    /\ calls' = <<>>
    /\ txn' = NoTxn
    /\ pre' = NoPre
    /\ UNCHANGED <<vif_map, mfc_rules, sock, kvif, kmfc, failures, state_file,
                   running, life, served, replay, adds_only, exit_log>>
    /\ UNCHANGED runvars

\* MfcDaemon._signal_handler / stop: SIGINT or SIGTERM arrives while run()
\* is in its loop and clears the running flag.
Signal ==
    /\ pc = "serving"
    /\ running
    /\ running' = FALSE
    /\ UNCHANGED <<vif_map, mfc_rules, sock, kvif, kmfc, pc, req, resp, calls,
                   pre, txn, failures, state_file, life, served, replay,
                   adds_only, ended, exit_log>>
    /\ UNCHANGED runvars

\* accept times out, "except socket.timeout: continue" goes back to the
\* loop test, and the test finds the flag cleared.
LoopExit ==
    /\ pc = "serving"
    /\ ~running
    /\ pc' = "stopped"
    /\ ended' = "signal"
    /\ UNCHANGED <<vif_map, mfc_rules, sock, kvif, kmfc, req, resp, calls, pre,
                   txn, failures, state_file, running, life, served, replay,
                   adds_only, exit_log>>
    /\ UNCHANGED runvars

\* A connection delivers bytes that are not a JSON document: json.loads
\* raises JSONDecodeError, which "except socket.timeout" does not catch, so
\* the exception leaves the while loop and run(); the running flag is not
\* touched.
GarbageRequest ==
    /\ pc = "serving"
    /\ pc' = "stopped"
    /\ ended' = "exception"
    /\ UNCHANGED <<vif_map, mfc_rules, sock, kvif, kmfc, req, resp, calls, pre,
                   txn, failures, state_file, running, life, served, replay,
                   adds_only, exit_log>>
    /\ UNCHANGED runvars

\* The finally block of main_entrypoint: save_state, then mrt_done; the
\* process ends.
\* When save_state raises, the exception leaves the finally block before
\* mrt_done is reached and the process ends with the raw socket still in
\* KernelInterface.sock; the kernel drops the tables of a dying owner.
\* An exception of mrt_done leaves main_entrypoint with the socket closed.
\* exit_log lists the calls made.
Shutdown ==
    /\ pc = "stopped"
    /\ \E io \in SaveOutcomes, ok \in BOOLEAN :
        \E s \in {save_state([vif_map |-> vif_map, mfc_rules |-> mfc_rules],
                             state_file, io)} :
        \E d \in {mrt_done([sock |-> sock, kvif |-> kvif, kmfc |-> kmfc,
                             calls |-> <<>>, exc |-> ""], ok)} :
          /\ state_file' = s.file
          /\ sock' = IF s.exc = "" THEN d.sock ELSE sock
          /\ kvif' = d.kvif
          /\ kmfc' = d.kmfc
          /\ exit_log' = IF s.exc = "" THEN <<"save_state", "mrt_done">>
                          ELSE <<"save_state">>
    /\ pc' = "exit"
    /\ UNCHANGED <<vif_map, mfc_rules, req, resp, calls, pre, txn, failures,
                   running, life, served, replay, adds_only, ended>>
    /\ UNCHANGED runvars

\* The daemon is started again on the same state file: a new process with
\* the state MfcDaemon.__init__ and KernelInterface.__init__ build.
Restart ==
    /\ pc = "exit"
    /\ life < MaxRestarts
    /\ life' = life + 1
    /\ pc' = "init"
    /\ vif_map' = EmptyMap
    /\ mfc_rules' = <<>>
    /\ sock' = "None"
    /\ running' = FALSE
    /\ served' = 0
    /\ replay' = 0
    /\ exit_log' = <<>>
    /\ UNCHANGED <<kvif, kmfc, req, resp, calls, pre, txn, failures, state_file,
                   adds_only, ended>>
    /\ UNCHANGED runvars

Next ==
    \/ Load
    \/ mrt_init
    \/ Signal
    \/ LoopExit
    \/ GarbageRequest
    \/ Shutdown
    \/ Restart
    \/ AddRequest
    \/ BadAddressRequest
    \/ DelRequest
    \/ ShowRequest
    \/ InvalidRequest
    \/ NextConnection

Spec == Init /\ [][Next]_vars

\* ================================================================ claims
\* An answered state holds the request just completed (req), its response
\* (resp), the kernel calls it issued (calls), what add_mfc_rule did (txn)
\* and the state before it (pre).
Answered == pc = "answered"

RuleNames(rule) == {rule.iif} \cup Range(rule.oifs)

Vifis(vm) == {vm[n].vifi : n \in DOMAIN vm}

HasKey(rules, source, group) == FindRule(rules, source, group) # 0

AddCalled == Answered /\ req.action = "ADD_MFC" /\ resp.called

DelCalled == Answered /\ req.action = "DEL_MFC" /\ resp.called

\* add_mfc_rule failed while acquiring an interface: the interface is
\* unknown, no VIF slot is free, or the kernel rejected add_vif.
AcquireFailed ==
    AddCalled /\ txn.orig \in {"ValueError", "RuntimeError", "OSError:MRT_ADD_VIF"}

\* add_mfc_rule acquired every interface and then the kernel rejected add_mfc.
AddMfcFailed == AddCalled /\ txn.orig = "OSError:MRT_ADD_MFC"

SameBinding(n) ==
    /\ n \in DOMAIN vif_map
    /\ vif_map[n].vifi = pre.vif_map[n].vifi
    /\ vif_map[n].ref_count = pre.vif_map[n].ref_count

\* C1: if add_mfc_rule fails while acquiring an interface, then on return
\* every binding that existed before the call has the same vifi and
\* ref_count, no binding created by the call remains, and the rule list is
\* unchanged.
C1_AcquireFailureRestores ==
    AcquireFailed =>
        /\ \A n \in DOMAIN pre.vif_map : SameBinding(n)
        /\ DOMAIN vif_map \subseteq DOMAIN pre.vif_map
        /\ mfc_rules = pre.mfc_rules

\* C2: if the kernel add_mfc call fails after all interfaces were acquired,
\* the request reports an error, every add_vif issued by the call is matched
\* by a later del_vif with the same vifi and ifindex, every pre-existing
\* binding has its ref_count of before the call, and no rule is added.
C2_AddMfcFailureUnwinds ==
    AddMfcFailed =>
        /\ resp.status = "error"
        /\ \A i \in 1..Len(calls) :
              calls[i].op = "add_vif" =>
                \E j \in (i + 1)..Len(calls) :
                    /\ calls[j].op = "del_vif"
                    /\ calls[j].vifi = calls[i].vifi
                    /\ calls[j].ifindex = calls[i].ifindex
        /\ \A n \in DOMAIN pre.vif_map :
              n \in DOMAIN vif_map
              /\ vif_map[n].ref_count = pre.vif_map[n].ref_count
        /\ mfc_rules = pre.mfc_rules

\* C3: an add request whose (source, group) is already in the rule list
\* fails with an error and has no side effects (no kernel call, no binding
\* change), and the rule list never holds two rules with the same key.
C3_DuplicateAddRejected ==
    /\ (Answered /\ req.action = "ADD_MFC"
           /\ HasKey(pre.mfc_rules, req.source, req.group)) =>
          /\ resp.status = "error"
          /\ calls = <<>>
          /\ vif_map = pre.vif_map
          /\ mfc_rules = pre.mfc_rules
    /\ \A i, j \in 1..Len(mfc_rules) :
          (mfc_rules[i].source = mfc_rules[j].source
             /\ mfc_rules[i].group = mfc_rules[j].group) => i = j

\* The number of stored rules that use interface n, each rule counted once.
RefsTo(rules, n) ==
    Cardinality({i \in 1..Len(rules) : n \in RuleNames(rules[i])})

\* C4: after every completed request, the ref_count of every binding equals
\* the number of stored rules whose iif or oifs name its interface.
C4_RefCountMatchesRules ==
    Answered =>
        \A n \in DOMAIN vif_map : vif_map[n].ref_count = RefsTo(mfc_rules, n)

\* C5: after every completed request, every interface used by a stored rule
\* has a binding with ref_count >= 1.
C5_RuleInterfacesBound ==
    Answered =>
        \A i \in 1..Len(mfc_rules) :
            \A n \in RuleNames(mfc_rules[i]) :
                n \in DOMAIN vif_map /\ vif_map[n].ref_count >= 1

\* C6: after every completed request, the kernel MFC table has an entry for
\* the (source, group) of every stored rule.
C6_RulesHaveKernelEntry ==
    Answered =>
        \A i \in 1..Len(mfc_rules) :
            <<s_addr(mfc_rules[i].source), s_addr(mfc_rules[i].group)>>
                \in DOMAIN kmfc

\* C7: in every reachable state the mapping interface name -> vifi of vif_map
\* is injective and every vifi lies in 0..31.
C7_VifIndexInjective ==
    /\ \A n \in DOMAIN vif_map : vif_map[n].vifi \in 0..31
    /\ \A n, m \in DOMAIN vif_map : vif_map[n].vifi = vif_map[m].vifi => n = m

\* Witness of C7: all 32 VIF slots are bound, after requests that bound and
\* released interfaces.
C7_Witness == Answered /\ Cardinality(DOMAIN vif_map) = MAXVIFS

\* The rule a delete request removed from the rule list.
RuleRemoved == DelCalled /\ Len(mfc_rules) < Len(pre.mfc_rules)

removed_rule == pre.mfc_rules[FindRule(pre.mfc_rules, req.source, req.group)]

DelVifCallsFor(n) ==
    {i \in 1..Len(calls) :
        calls[i].op = "del_vif" /\ calls[i].ifindex = get_ifindex(n)}

\* C8: when a delete removes a rule, an interface of the rule that another
\* stored rule still references keeps its binding with ref_count one lower
\* and no del_vif is issued for it; an interface whose last referencing rule
\* this was gets exactly one del_vif and its binding is removed.
C8_SharedInterfaceRelease ==
    RuleRemoved =>
        \A n \in RuleNames(removed_rule) :
            IF RefsTo(mfc_rules, n) >= 1
            THEN /\ n \in DOMAIN pre.vif_map
                 /\ n \in DOMAIN vif_map
                 /\ vif_map[n].ref_count = pre.vif_map[n].ref_count - 1
                 /\ DelVifCallsFor(n) = {}
            ELSE /\ Cardinality(DelVifCallsFor(n)) = 1
                 /\ n \notin DOMAIN vif_map

\* The state a successful add of rule r produces from the empty state.
AfterAddFromEmpty(r) ==
    LET a == add_mfc_rule(Fresh("open"), NoFault, r.source, r.group, r.iif, r.oifs).d
    IN  Snapshot(a.vif_map, a.mfc_rules, a.kvif, a.kmfc)

\* A delete of r's key was requested in the state that a successful add of
\* r produced from the empty state.
DeleteAfterAddFromEmpty ==
    /\ DelCalled
    /\ Len(pre.mfc_rules) = 1
    /\ pre.mfc_rules[1].source = req.source
    /\ pre.mfc_rules[1].group = req.group
    /\ pre = AfterAddFromEmpty(pre.mfc_rules[1])

AllEmpty ==
    /\ DOMAIN vif_map = {}
    /\ mfc_rules = <<>>
    /\ DOMAIN kvif = {}
    /\ DOMAIN kmfc = {}

KernelAcceptedAll == \A i \in 1..Len(calls) : calls[i].ok

HeldBefore(i) ==
    Vifis(pre.vif_map)
    \cup {calls[j].vifi : j \in {k \in 1..(i - 1) :
                                    calls[k].op = "add_vif" /\ calls[k].ok}}

\* C10: a new binding always receives the lowest VIF index in 0..31 that no
\* current binding holds: every add_vif is issued for the lowest index not
\* held at that time, and a binding the request created has the index and
\* ifindex of one of its accepted add_vif calls.
C10_LowestFreeIndex ==
    Answered =>
        /\ \A i \in 1..Len(calls) :
              calls[i].op = "add_vif" =>
                /\ calls[i].vifi \in 0..31
                /\ calls[i].vifi \notin HeldBefore(i)
                /\ \A v \in 0..31 : v < calls[i].vifi => v \in HeldBefore(i)
        /\ \A n \in (DOMAIN vif_map) \ (DOMAIN pre.vif_map) :
              \E i \in 1..Len(calls) :
                  /\ calls[i].op = "add_vif" /\ calls[i].ok
                  /\ calls[i].vifi = vif_map[n].vifi
                  /\ calls[i].ifindex = get_ifindex(n)

\* Witness of C10: with no request having failed so far, a new binding
\* received an index below one that is held, the index a released interface
\* had freed.
C10_Witness ==
    /\ AddCalled
    /\ failures = 0
    /\ resp.status = "success"
    /\ \E n \in (DOMAIN vif_map) \ (DOMAIN pre.vif_map) :
          \E m \in DOMAIN pre.vif_map : vif_map[n].vifi < pre.vif_map[m].vifi

\* ------------------------------------------------------- restart and replay
\* A SHOW answered by a restarted daemon whose previous process was ended by
\* a signal, when every request before it was a successful add or a SHOW.
ShowAfterRestart ==
    /\ life > 0
    /\ ended = "signal"
    /\ adds_only
    /\ Answered
    /\ req.action = "SHOW"

\* C11: after any sequence of successful adds, a termination signal and a
\* restart on the same state file, SHOW returns the rule list the stopped
\* process had, in the same order, and the kernel holds an MFC entry for
\* every one of those rules.
C11_RestartRestoresRules ==
    ShowAfterRestart =>
        /\ mfc_rules = state_file.mfc_rules
        /\ \A i \in 1..Len(state_file.mfc_rules) :
              <<s_addr(state_file.mfc_rules[i].source),
                s_addr(state_file.mfc_rules[i].group)>> \in DOMAIN kmfc

\* C12: during the startup replay a failure on one rule does not stop the
\* replay: when load_state has returned, add_mfc_rule has been attempted for
\* every persisted rule.
C12_ReplayAttemptsEveryRule ==
    (pc = "loaded" /\ state_file.exists) => replay = Len(state_file.mfc_rules)

\* ------------------------------------------------------------------ delete
\* The name n of the removed rule was released by the request: its binding
\* is gone or its ref_count is lower than before.
Released(n) ==
    n \in DOMAIN pre.vif_map =>
        \/ n \notin DOMAIN vif_map
        \/ vif_map[n].ref_count < pre.vif_map[n].ref_count

\* A delete of a stored rule whose MRT_DEL_MFC the kernel rejected because it
\* holds no entry for the key (ENOENT), not because of an injected fault.
EnoentDelete ==
    /\ DelCalled
    /\ HasKey(pre.mfc_rules, req.source, req.group)
    /\ \E i \in 1..Len(calls) :
          calls[i].op = "del_mfc" /\ ~calls[i].ok /\ ~calls[i].inj

\* C13: when the delete of a stored rule gets ENOENT from del_mfc, the delete
\* proceeds: the rule is removed from the rule list and its interfaces are
\* released.
C13_EnoentDeleteProceeds ==
    EnoentDelete =>
        /\ mfc_rules = ListRemove(pre.mfc_rules, removed_rule)
        /\ \A n \in RuleNames(removed_rule) : Released(n)

\* A delete request for a key that no stored rule has.
AbsentDelete ==
    /\ Answered
    /\ req.action = "DEL_MFC"
    /\ ~HasKey(pre.mfc_rules, req.source, req.group)

\* C14: a delete request for a (source, group) that is not in the rule list
\* returns an error, issues no kernel call, and leaves vif_map and the rule
\* list unchanged.
C14_AbsentDeleteIsError ==
    AbsentDelete =>
        /\ resp.status = "error"
        /\ calls = <<>>
        /\ vif_map = pre.vif_map
        /\ mfc_rules = pre.mfc_rules

\* A delete of an absent key answered while other rules are stored and the
\* kernel holds their entries.
C14_Witness ==
    /\ AbsentDelete
    /\ resp.status = "error"
    /\ resp.called
    /\ pre.mfc_rules # <<>>
    /\ DOMAIN kmfc # {}

\* C15: whenever a delete request returns an error, the rule list, vif_map
\* and the kernel VIF and MFC tables are the same as before the request.
C15_FailedDeleteChangesNothing ==
    (Answered /\ req.action = "DEL_MFC" /\ resp.status = "error") =>
        Snapshot(vif_map, mfc_rules, kvif, kmfc) = pre

\* A delete of a stored rule during which the kernel rejected a del_vif.
ReleaseFailedInDelete ==
    /\ DelCalled
    /\ HasKey(pre.mfc_rules, req.source, req.group)
    /\ \E i \in 1..Len(calls) : calls[i].op = "del_vif" /\ ~calls[i].ok

\* C16: if del_vif is rejected while a stored rule is deleted, the rule is
\* still removed from the rule list, the client is not answered with an
\* error, and the remaining interfaces of the rule are released.
C16_ReleaseFailureIsBestEffort ==
    ReleaseFailedInDelete =>
        /\ mfc_rules = ListRemove(pre.mfc_rules, removed_rule)
        /\ resp.status # "error"
        /\ \A n \in RuleNames(removed_rule) : Released(n)

\* ------------------------------------------------------------ validation
\* C17: an ADD_MFC request whose iif also appears in its oifs is answered
\* with a validation error; no kernel call is issued and no in-memory state
\* changes.
C17_IifInOifsRejected ==
    (Answered /\ req.action = "ADD_MFC" /\ req.iif \in Range(req.oifs)) =>
        /\ resp.status = "error"
        /\ ~resp.called
        /\ calls = <<>>
        /\ vif_map = pre.vif_map
        /\ mfc_rules = pre.mfc_rules

\* The (source, group) of a request is not a pair of IPv4 literals with a
\* group in 224.0.0.0/4.
InvalidAddresses(source, group) ==
    \/ inet_aton(source) = <<>>
    \/ inet_aton(group) = <<>>
    \/ ~ipv4_is_multicast(s_addr(group))

\* C18: an ADD_MFC request whose source or group is not a valid IPv4 literal,
\* or whose group lies outside 224.0.0.0/4, is answered with an error before
\* any kernel contact: no add_vif, del_vif or add_mfc call occurs and vif_map
\* and the rule list are unchanged.
C18_BadAddressRejectedEarly ==
    (Answered /\ req.action = "ADD_MFC" /\ InvalidAddresses(req.source, req.group)) =>
        /\ resp.status = "error"
        /\ \A i \in 1..Len(calls) : calls[i].op \notin {"add_vif", "del_vif", "add_mfc"}
        /\ vif_map = pre.vif_map
        /\ mfc_rules = pre.mfc_rules

\* The cases in which the validator has to reject a command document.
MissingAction(c) == "action" \notin c.keys

UnknownAction(c) ==
    "action" \in c.typed /\ c.action \notin {"ADD_MFC", "DEL_MFC", "SHOW"}

MissingField(c) ==
    /\ "action" \in c.typed
    /\ ~(Required(c.action) \subseteq c.keys)

EmptyOifs(c) ==
    "action" \in c.typed /\ c.action = "ADD_MFC" /\ "oifs" \in c.typed /\ c.oifs = <<>>

WrongType(c) ==
    \E k \in c.keys \ c.typed :
        k = "action" \/ ("action" \in c.typed /\ k \in Required(c.action))

Rejected(c) ==
    MissingAction(c) \/ UnknownAction(c) \/ MissingField(c) \/ EmptyOifs(c)
        \/ WrongType(c)

\* C19: whenever the validator rejects a command (missing action, unknown
\* action, missing required field, empty oifs, wrong type), _handle_command
\* returns status error and neither add_mfc_rule nor del_mfc_rule is invoked:
\* vif_map, the rule list and the kernel are untouched.
C19_RejectedCommandTouchesNothing ==
    (Answered /\ Rejected(req)) =>
        /\ resp.status = "error"
        /\ ~resp.called
        /\ calls = <<>>
        /\ Snapshot(vif_map, mfc_rules, kvif, kmfc) = pre

\* A DEL_MFC document without group, naming the source of a stored rule, was
\* answered with an error.
C19_Witness ==
    /\ Answered
    /\ MissingField(req)
    /\ req.action = "DEL_MFC"
    /\ resp.status = "error"
    /\ \E i \in 1..Len(mfc_rules) : mfc_rules[i].source = req.source
    /\ DOMAIN kmfc # {}

\* ------------------------------------------------------------ accept loop
\* C20: once the accept loop is running, no client request terminates it;
\* only a termination signal ends the loop: when the loop of a daemon whose
\* engine was opened has ended, the running flag has been cleared.
C20_OnlySignalEndsLoop ==
    (pc = "stopped" /\ sock = "open") => ~running

\* ---------------------------------------------------------------- shutdown
\* The process has gone through its finally block after mrt_init had opened
\* the engine: run() had set the running flag, which only a signal clears.
ExitedAfterEngineOpened == pc = "exit" /\ (running \/ ended = "signal")

\* C21: on every exit path of main_entrypoint after the engine was opened
\* (normal shutdown, error in the run loop, failure while saving state),
\* mrt_done is called before the process exits.
C21_MrtDoneOnEveryExit ==
    ExitedAfterEngineOpened => "mrt_done" \in Range(exit_log)

\* The step of the finally block in which save_state raised.
SaveFailed == pc = "stopped" /\ pc' = "exit" /\ exit_log' = <<"save_state">>

\* C24: save_state replaces the state file atomically: if writing fails or is
\* interrupted at any point, the state file still holds the complete
\* previously saved content.
C24_SaveIsAtomic ==
    [][SaveFailed => state_file' = state_file]_vars

\* The step of main_entrypoint that calls load_state on a state file that is
\* absent or is not a whole document.
LoadOfUnusableFile ==
    pc = "init" /\ pc' # "init" /\ (~state_file.exists \/ ~state_file.complete)

\* C25: load_state is fail-open: if the state file is absent or unparsable,
\* it returns without raising, issues no kernel call, and leaves vif_map and
\* the rule list empty, so startup continues.
C25_LoadIsFailOpen ==
    [][LoadOfUnusableFile =>
          /\ pc' = "loaded"
          /\ DOMAIN vif_map' = {}
          /\ mfc_rules' = <<>>
          /\ calls' = <<>>
          /\ kvif' = kvif
          /\ kmfc' = kmfc]_vars

\* load_state has returned on a state file cut short by a failed save of the
\* previous process.
C25_Witness ==
    /\ pc = "loaded"
    /\ life > 0
    /\ state_file.exists
    /\ ~state_file.complete
    /\ mfc_rules = <<>>

\* C27: when the run loop terminates after a stop request, shutdown performs
\* save_state exactly once and then mrt_done exactly once, in that order, and
\* no request is accepted after the loop has exited.
C27_OrderlyShutdown ==
    /\ (pc = "exit" /\ ended = "signal") => exit_log = <<"save_state", "mrt_done">>
    /\ pc \in {"stopped", "exit"} => req = NoCommand

\* ------------------------------------------------------------------- show
\* C26: SHOW is infallible and read-only: in every reachable state it returns
\* status success with the current vif_map and rule list, issues no kernel
\* call, and leaves vif_map, the rule list and the kernel tables unchanged.
C26_ShowIsReadOnly ==
    (Answered /\ req.action = "SHOW" /\ "action" \in req.typed) =>
        /\ resp.status = "success"
        /\ resp.payload = [vif_map |-> vif_map, mfc_rules |-> mfc_rules]
        /\ calls = <<>>
        /\ Snapshot(vif_map, mfc_rules, kvif, kmfc) = pre

\* A SHOW answered while rules are stored and a binding is left with
\* ref_count 0 by an earlier failed release.
C26_Witness ==
    /\ Answered
    /\ req.action = "SHOW"
    /\ resp.status = "success"
    /\ mfc_rules # <<>>
    /\ \E n \in DOMAIN vif_map : vif_map[n].ref_count = 0

\* ------------------------------------------------------------ ref counts
\* C29: after every completed request, every binding present in vif_map has
\* ref_count >= 1, whether or not the kernel del_vif call succeeded.
C29_BindingsAreReferenced ==
    Answered => \A n \in DOMAIN vif_map : vif_map[n].ref_count >= 1

\* The number of times name n is acquired by the request: its occurrences in
\* interfaces_used.
Acquisitions(n) ==
    Cardinality({i \in 1..Len(<<req.iif>> \o req.oifs) : (<<req.iif>> \o req.oifs)[i] = n})

\* An add that acquired all its interfaces and installed its MFC entry.
AddSucceeded == AddCalled /\ txn.orig = ""

\* C30: acquiring an interface that already has a binding increments its
\* ref_count by exactly one, returns its existing vifi, issues no kernel call
\* and leaves the vifi and ifindex of that binding and all other bindings
\* unchanged: after a successful add, a name bound before the request has
\* its old vifi and ifindex and its count raised by the number of times the
\* request names it, that vifi is the one handed to add_mfc, no add_vif was
\* issued for it, and the bindings the request does not name are as before.
C30_AcquireExistingBinding ==
    AddSucceeded =>
        /\ \A n \in RuleNames(req) \cap DOMAIN pre.vif_map :
              /\ n \in DOMAIN vif_map
              /\ vif_map[n].vifi = pre.vif_map[n].vifi
              /\ vif_map[n].ifindex = pre.vif_map[n].ifindex
              /\ vif_map[n].ref_count = pre.vif_map[n].ref_count + Acquisitions(n)
              /\ \A i \in 1..Len(calls) :
                    calls[i].op = "add_vif" => calls[i].ifindex # pre.vif_map[n].ifindex
              /\ \A i \in 1..Len(calls) :
                    calls[i].op = "add_mfc" =>
                        /\ req.iif = n => calls[i].parent = pre.vif_map[n].vifi
                        /\ \A k \in 1..Len(req.oifs) :
                              req.oifs[k] = n => calls[i].outs[k] = pre.vif_map[n].vifi
        /\ \A n \in DOMAIN pre.vif_map \ RuleNames(req) :
              n \in DOMAIN vif_map /\ vif_map[n] = pre.vif_map[n]
        /\ \A n \in RuleNames(req) \ DOMAIN pre.vif_map :
              n \in DOMAIN vif_map /\ vif_map[n].ref_count = Acquisitions(n)

\* A successful add all of whose interfaces were bound before the request,
\* one of them with a count above one.
C30_Witness ==
    /\ AddSucceeded
    /\ RuleNames(req) \subseteq DOMAIN pre.vif_map
    /\ \E n \in RuleNames(req) : pre.vif_map[n].ref_count >= 2
    /\ \A i \in 1..Len(calls) : calls[i].op # "add_vif"

\* ------------------------------------------- main_entrypoint and run(), by step
\* The control flow of main_entrypoint and run() one statement group at a
\* time, with the signal handler and the clients of the control socket as the
\* environment.  Requests are not looked into here: handling one is a single
\* step.  step is the position of the main thread:
\*   "registered"  the signal handlers are installed (line 257)
\*   "engine"      load_state and mrt_init have returned
\*   "created"     run() has set the running flag and created its socket
\*   "bound"       the socket is bound to the path
\*   "permitted"   the chown/chmod block is over
\*   "looptest"    at "while self._running"
\*   "accept"      in sock.accept()
\*   "recv"        in conn.recv(4096)
\*   "handle"      data was received
\*   "closing"     at the finally block of run()
\*   "finally"     at the finally block of main_entrypoint
\*   "exit"        the process has ended
LoopSteps == {"looptest", "accept", "recv", "handle"}

\* sock.listen(1): the number of connections that wait to be accepted.
Backlog == 1

\* What the chown/chmod block of run() meets: both calls succeed, getgrnam
\* raises KeyError, chown raises OSError, or chmod raises OSError.
PermissionOutcomes == {"applied", "no_group", "chown_fails", "chmod_fails"}

RunInit ==
    /\ vif_map = EmptyMap
    /\ mfc_rules = <<>>
    /\ sock = "None"
    /\ kvif = EmptyMap
    /\ kmfc = EmptyMap
    /\ pc = ""
    /\ req = NoCommand
    /\ resp = NoResp
    /\ calls = <<>>
    /\ pre = NoPre
    /\ txn = NoTxn
    /\ failures = 0
    /\ state_file = NoFile
    /\ life = 0
    /\ served = 0
    /\ replay = 0
    /\ adds_only = TRUE
    /\ ended = ""
    /\ exit_log = <<>>
    /\ running = FALSE
    /\ step = "registered"
    /\ stop_requested = FALSE
    /\ \E stale \in BOOLEAN : ctl = [NoSocket EXCEPT !.stale = stale]

\* MfcDaemon._signal_handler / stop: a SIGINT or SIGTERM is delivered to the
\* process, at any point after the handlers are installed.
StopRequest ==
    /\ step # "exit"
    /\ running' = FALSE
    /\ stop_requested' = TRUE
    /\ UNCHANGED <<step, ctl>>
    /\ UNCHANGED corevars

\* load_state and ki.mrt_init (lines 260-264); an exception of mrt_init
\* goes to the finally block.
Startup ==
    /\ step = "registered"
    /\ \E ok \in BOOLEAN : step' = IF ok THEN "engine" ELSE "finally"
    /\ UNCHANGED <<running, stop_requested, ctl>>
    /\ UNCHANGED corevars

\* The first statements of run(): the running flag is set and the socket is
\* created with its 0.5 s timeout (lines 191-194).
RunEnter ==
    /\ step = "engine"
    /\ running' = TRUE
    /\ step' = "created"
    /\ UNCHANGED <<stop_requested, ctl>>
    /\ UNCHANGED corevars

\* A stale socket file is unlinked and the socket is bound (lines 197-200);
\* an exception of bind goes to the finally block of run().
Bind ==
    /\ step = "created"
    /\ \E ok \in BOOLEAN :
          /\ ctl' = [ctl EXCEPT !.stale = FALSE, !.bound = ok]
          /\ step' = IF ok THEN "bound" ELSE "closing"
    /\ UNCHANGED <<running, stop_requested>>
    /\ UNCHANGED corevars

\* The permission block (lines 203-214): getgrnam, chown, chmod; KeyError
\* and OSError are printed as warnings and run() goes on.
SetPermissions ==
    /\ step = "bound"
    /\ \E o \in PermissionOutcomes :
          ctl' = [ctl EXCEPT
                     !.group = IF o \in {"applied", "chmod_fails"} THEN "access" ELSE @,
                     !.mode = IF o = "applied" THEN "0660" ELSE @]
    /\ step' = "permitted"
    /\ UNCHANGED <<running, stop_requested>>
    /\ UNCHANGED corevars

\* sock.listen(1) (line 217).
Listen ==
    /\ step = "permitted"
    /\ ctl' = [ctl EXCEPT !.listening = TRUE]
    /\ step' = "looptest"
    /\ UNCHANGED <<running, stop_requested>>
    /\ UNCHANGED corevars

\* "while self._running" (line 221).
LoopTest ==
    /\ step = "looptest"
    /\ step' = IF running THEN "accept" ELSE "closing"
    /\ UNCHANGED <<running, stop_requested, ctl>>
    /\ UNCHANGED corevars

\* accept raises socket.timeout after 0.5 s without a connection; "continue"
\* goes back to the loop test (lines 230-232).
AcceptTimeout ==
    /\ step = "accept"
    /\ ctl.pending = 0
    /\ step' = "looptest"
    /\ UNCHANGED <<running, stop_requested, ctl>>
    /\ UNCHANGED corevars

\* A client connects to the listening socket; the connection waits in the
\* backlog until the daemon accepts it.
ClientConnects ==
    /\ step # "exit"
    /\ ctl.listening
    /\ ctl.pending < Backlog
    /\ ctl' = [ctl EXCEPT !.pending = @ + 1]
    /\ UNCHANGED <<running, stop_requested, step>>
    /\ UNCHANGED corevars

\* accept returns a waiting connection, which is a blocking socket (the
\* timeout of the listening socket is not inherited), and the daemon calls
\* conn.recv (lines 223-225).
Accept ==
    /\ step = "accept"
    /\ ctl.pending > 0
    /\ ctl' = [ctl EXCEPT !.pending = @ - 1]
    /\ step' = "recv"
    /\ UNCHANGED <<running, stop_requested>>
    /\ UNCHANGED corevars

\* The connected client sends a request.
ClientSends ==
    /\ step = "recv"
    /\ step' = "handle"
    /\ UNCHANGED <<running, stop_requested, ctl>>
    /\ UNCHANGED corevars

\* The connected client closes without sending: recv returns no data and
\* "continue" goes back to the loop test (lines 226-227).
ClientCloses ==
    /\ step = "recv"
    /\ step' = "looptest"
    /\ UNCHANGED <<running, stop_requested, ctl>>
    /\ UNCHANGED corevars

\* json.loads, _handle_command and sendall (lines 228-229): the response is
\* sent and the loop goes on, or an exception other than socket.timeout
\* leaves the loop.
Handle ==
    /\ step = "handle"
    /\ \E ok \in BOOLEAN : step' = IF ok THEN "looptest" ELSE "closing"
    /\ UNCHANGED <<running, stop_requested, ctl>>
    /\ UNCHANGED corevars

\* The finally block of run(): the socket is closed and its file unlinked
\* (lines 233-238).
CloseListener ==
    /\ step = "closing"
    /\ ctl' = [ctl EXCEPT !.bound = FALSE, !.listening = FALSE,
                          !.group = "default", !.mode = "default",
                          !.pending = 0]
    /\ step' = "finally"
    /\ UNCHANGED <<running, stop_requested>>
    /\ UNCHANGED corevars

\* The finally block of main_entrypoint; the process ends.
Finally ==
    /\ step = "finally"
    /\ step' = "exit"
    /\ UNCHANGED <<running, stop_requested, ctl>>
    /\ UNCHANGED corevars

RunNext ==
    \/ StopRequest
    \/ Startup
    \/ RunEnter
    \/ Bind
    \/ SetPermissions
    \/ Listen
    \/ LoopTest
    \/ AcceptTimeout
    \/ ClientConnects
    \/ Accept
    \/ ClientSends
    \/ ClientCloses
    \/ Handle
    \/ CloseListener
    \/ Finally

\* The steps the main thread takes on its own are taken: every statement
\* terminates, and accept returns a waiting connection or, after its timeout,
\* without one.  Nothing is assumed about signals and clients.
RunFairness ==
    /\ WF_vars(Startup)
    /\ WF_vars(RunEnter)
    /\ WF_vars(Bind)
    /\ WF_vars(SetPermissions)
    /\ WF_vars(Listen)
    /\ WF_vars(LoopTest)
    /\ WF_vars(AcceptTimeout)
    /\ WF_vars(Accept)
    /\ WF_vars(Handle)
    /\ WF_vars(CloseListener)
    /\ WF_vars(Finally)

RunSpec == RunInit /\ [][RunNext]_vars /\ RunFairness

\* C22: after a termination signal sets the stop flag while the accept loop
\* is running, the loop eventually exits and shutdown begins, for every
\* behaviour of connected clients (including a client that connects and
\* sends nothing).
C22_StopEndsLoop ==
    (step \in LoopSteps /\ stop_requested /\ ~running) ~> (step \notin LoopSteps)

\* C23: a stop request is never lost: if stop() (or a termination signal)
\* happens after the handlers are registered but before run() enters its
\* accept loop, the loop does not run with the flag set.
C23_StopRequestKept ==
    (stop_requested /\ step \in LoopSteps) => ~running

\* C28: the control socket never listens unless its group has been set to
\* the configured access group and its mode to 0660.
C28_ListensOnlyWithPermissions ==
    ctl.listening => (ctl.group = "access" /\ ctl.mode = "0660")

\* The names add_mfc_rule acquires, in order.
interfaces_used == <<req.iif>> \o req.oifs

\* The position in names of the first name without a binding in vm, or
\* Len(names) + 1 when every name is bound.
FirstUnbound(names, vm) ==
    Min({i \in 1..Len(names) : names[i] \notin DOMAIN vm} \cup {Len(names) + 1})

\* add_mfc_rule was called while vif_map held 32 bindings.
AddOnFullTable == AddCalled /\ Cardinality(DOMAIN pre.vif_map) = MAXVIFS

\* C31: when vif_map already holds 32 bindings, acquiring an interface
\* that has no binding fails (RuntimeError) without issuing add_vif and
\* without inserting a binding, while the acquisitions of already bound
\* interfaces before it succeed.
C31_NoFreeVif ==
    AddOnFullTable =>
        LET k == FirstUnbound(interfaces_used, pre.vif_map)
        IN  /\ txn.acquired = SubSeq(interfaces_used, 1, k - 1)
            /\ \A i \in 1..Len(calls) : calls[i].op # "add_vif"
            /\ DOMAIN vif_map \subseteq DOMAIN pre.vif_map
            /\ k <= Len(interfaces_used) => txn.orig = "RuntimeError"
            /\ k > Len(interfaces_used) => ~AcquireFailed

\* Witness of C31: on a full table, a request whose iif is bound and whose
\* oif is not was refused after the iif had been acquired.
C31_Witness ==
    /\ AddOnFullTable
    /\ req.iif \in DOMAIN pre.vif_map
    /\ Len(req.oifs) = 1
    /\ req.oifs[1] \notin DOMAIN pre.vif_map
    /\ txn.acquired = <<req.iif>>
    /\ txn.orig = "RuntimeError"

Reverse(s) == [i \in 1..Len(s) |-> s[Len(s) + 1 - i]]

\* add_mfc_rule was called and went through its rollback.
AddUnwound == AddCalled /\ txn.orig # ""

\* C32: when add_mfc_rule unwinds a failed transaction, it releases exactly
\* the interfaces it acquired in this call, in reverse order of acquisition,
\* and the error returned to the caller is the original failure.
C32_UnwindIsLifo ==
    AddUnwound =>
        /\ txn.done = Reverse(txn.acquired)
        /\ resp.message = txn.orig

\* The names of names[i..] that the call has to bind, in the order of their
\* first occurrence: those without a binding in vm.
RECURSIVE FirstBindings(_, _, _)
FirstBindings(names, vm, i) ==
    IF i > Len(names) THEN <<>>
    ELSE (IF names[i] \notin DOMAIN vm /\ \A j \in 1..(i - 1) : names[j] # names[i]
          THEN <<names[i]>> ELSE <<>>)
         \o FirstBindings(names, vm, i + 1)

\* The kernel accepted an add_mfc of the request.
AddMfcAccepted == \E i \in 1..Len(calls) : calls[i].op = "add_mfc" /\ calls[i].ok

\* C33: in a successful add_mfc_rule the interfaces are acquired in the
\* order [iif] ++ oifs, every add_vif of the call precedes the single
\* add_mfc call, add_mfc is issued exactly once with parent = the vifi bound
\* to iif and outputs = the vifis bound to oifs, and the rule is appended to
\* the rule list only after add_mfc succeeded.
C33_AddCallOrder ==
    /\ AddSucceeded =>
          LET new == FirstBindings(interfaces_used, pre.vif_map, 1)
              last == calls[Len(calls)]
          IN  /\ txn.acquired = interfaces_used
              /\ Len(calls) = Len(new) + 1
              /\ \A i \in 1..Len(new) :
                    /\ calls[i].op = "add_vif"
                    /\ calls[i].ifindex = get_ifindex(new[i])
                    /\ calls[i].vifi = vif_map[new[i]].vifi
              /\ last.op = "add_mfc"
              /\ last.ok
              /\ last.source = req.source
              /\ last.group = req.group
              /\ last.parent = vif_map[req.iif].vifi
              /\ last.outs = [i \in 1..Len(req.oifs) |-> vif_map[req.oifs[i]].vifi]
              /\ mfc_rules = Append(pre.mfc_rules,
                                    [source |-> req.source, group |-> req.group,
                                     iif |-> req.iif, oifs |-> req.oifs])
    /\ (AddCalled /\ ~AddMfcAccepted) => mfc_rules = pre.mfc_rules

\* Witness of C33: a successful add that bound its iif and its oif, two
\* different interfaces, while other bindings were held.
C33_Witness ==
    /\ AddSucceeded
    /\ pre.vif_map # EmptyMap
    /\ Len(calls) = 3
    /\ calls[1].vifi # calls[2].vifi
    /\ calls[3].parent = calls[1].vifi
    /\ calls[3].outs = <<calls[2].vifi>>

\* --------------------------------------------- KernelInterface on its own
\* The KernelInterface object driven directly through its methods, as its
\* unit tests drive it: sock, kvif and kmfc are the adapter and the kernel,
\* calls logs every kernel call issued since construction, exit_log lists
\* the methods invoked, and resp holds the outcome of the last one (message
\* is the exception raised, "" when none).
MaxCalls == 4

VifSlots == {0, 1}

KernelInit ==
    /\ vif_map = EmptyMap
    /\ mfc_rules = <<>>
    /\ sock = "None"
    /\ kvif = EmptyMap
    /\ kmfc = EmptyMap
    /\ pc = ""
    /\ req = NoCommand
    /\ resp = NoResp
    /\ calls = <<>>
    /\ pre = NoPre
    /\ txn = NoTxn
    /\ failures = 0
    /\ state_file = NoFile
    /\ life = 0
    /\ served = 0
    /\ replay = 0
    /\ adds_only = TRUE
    /\ ended = ""
    /\ exit_log = <<>>
    /\ running = FALSE
    /\ step = ""
    /\ stop_requested = FALSE
    /\ ctl = NoSocket

\* The adapter and the kernel as the state the kernel operators work on.
Adapter ==
    [vif_map |-> EmptyMap, mfc_rules |-> <<>>, sock |-> sock, kvif |-> kvif,
     kmfc |-> kmfc, calls |-> calls, exc |-> ""]

\* The fault input that makes the kernel reject the next call, or no fault.
FaultNow(reject) ==
    IF reject
    THEN [add_vif |-> Issued(Adapter, "add_vif") + 1,
          del_vif |-> Issued(Adapter, "del_vif") + 1,
          add_mfc |-> TRUE, del_mfc |-> TRUE]
    ELSE NoFault

\* Method name was invoked and left the adapter and the kernel as in d.
Invoked(name, d) ==
    /\ exit_log' = Append(exit_log, name)
    /\ sock' = d.sock
    /\ kvif' = d.kvif
    /\ kmfc' = d.kmfc
    /\ calls' = d.calls
    /\ resp' = [NoResp EXCEPT !.status = IF d.exc = "" THEN "success" ELSE "error",
                              !.message = d.exc, !.called = TRUE]
    /\ UNCHANGED <<vif_map, mfc_rules, pc, req, pre, txn, failures, state_file,
                   life, served, replay, adds_only, ended, running>>
    /\ UNCHANGED runvars

\* KernelInterface.mrt_init on an adapter without a socket: the raw socket
\* is created and stored, then MRT_INIT is accepted, or rejected because
\* another process owns the engine.
KernelMrtInit ==
    /\ Len(exit_log) < MaxCalls
    /\ sock = "None"
    /\ \E ok \in BOOLEAN :
          Invoked("mrt_init",
                  [Adapter EXCEPT !.sock = IF ok THEN "open" ELSE "raw",
                                  !.calls = Append(@, VifCall("mrt_init", -1, -1, ok, ~ok)),
                                  !.exc = IF ok THEN "" ELSE "OSError:MRT_INIT"])

KernelMrtDone ==
    /\ Len(exit_log) < MaxCalls
    /\ \E ok \in BOOLEAN : Invoked("mrt_done", mrt_done(Adapter, ok))

KernelAddVif ==
    /\ Len(exit_log) < MaxCalls
    /\ \E vifi \in VifSlots, reject \in BOOLEAN :
          Invoked("_add_vif", _add_vif(Adapter, FaultNow(reject), vifi, vifi + 1))

KernelDelVif ==
    /\ Len(exit_log) < MaxCalls
    /\ \E vifi \in VifSlots, reject \in BOOLEAN :
          Invoked("_del_vif", _del_vif(Adapter, FaultNow(reject), vifi, vifi + 1))

KernelAddMfc ==
    /\ Len(exit_log) < MaxCalls
    /\ \E source \in Sources, group \in Groups, reject \in BOOLEAN :
          Invoked("_add_mfc", _add_mfc(Adapter, FaultNow(reject), source, group, 0, <<1>>))

KernelDelMfc ==
    /\ Len(exit_log) < MaxCalls
    /\ \E source \in Sources, group \in Groups, reject \in BOOLEAN :
          Invoked("_del_mfc", _del_mfc(Adapter, FaultNow(reject), source, group))

KernelNext ==
    \/ KernelMrtInit
    \/ KernelMrtDone
    \/ KernelAddVif
    \/ KernelDelVif
    \/ KernelAddMfc
    \/ KernelDelMfc

KernelSpec == KernelInit /\ [][KernelNext]_vars

\* This step is an invocation of mrt_done.
MrtDoneInvoked == exit_log' = Append(exit_log, "mrt_done")

\* C34: mrt_done is idempotent and always releases the handle: a call on
\* an adapter that holds a socket issues MRT_DONE once and leaves sock None,
\* also when MRT_DONE fails (the error is raised); a call on an adapter
\* without a socket issues no kernel call, raises nothing and changes
\* nothing.
C34_MrtDoneIdempotent ==
    [][MrtDoneInvoked =>
         /\ sock' = "None"
         /\ IF sock = "None"
            THEN /\ calls' = calls
                 /\ resp'.message = ""
                 /\ kvif' = kvif
                 /\ kmfc' = kmfc
            ELSE /\ Len(calls') = Len(calls) + 1
                 /\ SubSeq(calls', 1, Len(calls)) = calls
                 /\ calls'[Len(calls')].op = "mrt_done"
                 /\ resp'.message =
                       (IF calls'[Len(calls')].ok THEN "" ELSE "OSError:MRT_DONE")]_vars

\* Witness of C34: mrt_done was invoked twice in a row on an opened engine
\* with VIFs installed; MRT_DONE was issued once, was rejected, and the
\* socket is gone.
C34_Witness ==
    /\ Len(exit_log) = 4
    /\ exit_log[1] = "mrt_init"
    /\ exit_log[2] = "_add_vif"
    /\ exit_log[3] = "mrt_done"
    /\ exit_log[4] = "mrt_done"
    /\ Len(calls) = 3
    /\ calls[1].ok
    /\ calls[2].ok
    /\ calls[3].op = "mrt_done"
    /\ ~calls[3].ok
    /\ sock = "None"
    /\ resp.message = ""

\* C35: after every completed request, the set of VIF slots installed in
\* the kernel equals the set of vifi values in vif_map (a failed kernel call
\* having no effect): no kernel VIF exists without a binding and no binding
\* exists without its kernel VIF.
C35_KernelVifsMatchBindings ==
    Answered => DOMAIN kvif = Vifis(vif_map)

\* Witness of C35: a request during which the kernel rejected a VIF call
\* has completed, and bindings are held.
C35_Witness ==
    /\ Answered
    /\ \E i \in 1..Len(calls) :
          calls[i].op \in {"add_vif", "del_vif"} /\ ~calls[i].ok
    /\ vif_map # EmptyMap
    /\ DOMAIN kvif = Vifis(vif_map)

\* load_state has just returned after calling add_mfc_rule for persisted
\* rules: each of these calls went to the adapter's _add_vif for the first
\* interface of its rule.
ReplayCalledAdapter == pc = "loaded" /\ replay > 0

\* C36: every add_vif, del_vif, add_mfc and del_mfc kernel call is made
\* only while the engine is open, after a successful mrt_init and before
\* mrt_done, the calls of the startup replay of the persisted rules
\* included.
C36_CallsOnlyWhileOpen ==
    /\ calls # <<>> => sock = "open"
    /\ ReplayCalledAdapter => sock = "open"

\* The kernel MFC entry of the rule's (source, group) has the vifi bound to
\* the rule's iif as parent and the vifis bound to its oifs as outputs.
RuleMatchesKernel(rule) ==
    LET key == <<s_addr(rule.source), s_addr(rule.group)>>
    IN  /\ key \in DOMAIN kmfc
        /\ RuleNames(rule) \subseteq DOMAIN vif_map
        /\ kmfc[key].parent = vif_map[rule.iif].vifi
        /\ kmfc[key].ttls = {vif_map[n].vifi : n \in Range(rule.oifs)}

\* C37: after every completed request, for every rule in the rule list the
\* kernel MFC entry for its (source, group) has as parent the vifi currently
\* bound to the rule's iif and as outputs exactly the vifis currently bound
\* to the rule's oifs.
C37_RulesMatchKernelEntries ==
    Answered => \A i \in 1..Len(mfc_rules) : RuleMatchesKernel(mfc_rules[i])

\* The finally block of main_entrypoint runs in a process whose mrt_init was
\* rejected: the raw socket is stored but does not own the engine.
ExitAfterRejectedInit == pc = "stopped" /\ sock = "raw" /\ pc' = "exit"

\* C38: if startup fails because mrt_init is rejected, the rule list stored
\* in the state file is the same after the process exits as it was before
\* the process started.
C38_RejectedInitKeepsFile ==
    [][ExitAfterRejectedInit => state_file'.mfc_rules = state_file.mfc_rules]_vars

\* The rules a request can name.
RuleInputs ==
    {[source |-> s, group |-> g, iif |-> i, oifs |-> o] :
        s \in Sources, g \in Groups, i \in SmallNames, o \in OifsInputs \ {<<>>}}

\* The daemon as the core operations see it between two requests.
Daemon ==
    [vif_map |-> vif_map, mfc_rules |-> mfc_rules, sock |-> sock, kvif |-> kvif,
     kmfc |-> kmfc, calls |-> <<>>, exc |-> ""]

\* An add of r and then a delete of r's key, from the current state, when
\* both succeed, leave vif_map and the rule list as they are now.
RoundTripRestores(r) ==
    LET a == add_mfc_rule(Daemon, NoFault, r.source, r.group, r.iif, r.oifs).d
        b == del_mfc_rule(a, NoFault, r.source, r.group)
    IN  (a.exc = "" /\ b.success) =>
            /\ b.d.vif_map = vif_map
            /\ b.d.mfc_rules = mfc_rules

\* C39: from any reachable state in which (source, group) of rule r is not
\* in the rule list, a successful add of r followed by a successful delete
\* of r's key restores vif_map (names, vifis, ref_counts) and the rule list
\* exactly to their values before the add, for every r including one whose
\* iif also occurs in its oifs.
C39_AddDeleteRoundTrip ==
    pc = "serving" =>
        \A r \in RuleInputs :
            ~HasKey(mfc_rules, r.source, r.group) => RoundTripRestores(r)

\* The rollback of a failed add_mfc_rule met a rejected del_vif.
UnwindMetDelVifFailure ==
    /\ AddUnwound
    /\ \E i \in 1..Len(calls) : calls[i].op = "del_vif" /\ ~calls[i].ok

\* C40: during the unwind of a failed add_mfc_rule, a del_vif failure on
\* one interface does not keep the other interfaces acquired by the call
\* from being released: after the call no binding has a ref_count above the
\* one it had before the call, and no binding created by the call counts a
\* reference.
C40_UnwindSurvivesDelVifFailure ==
    UnwindMetDelVifFailure =>
        \A n \in DOMAIN vif_map :
            vif_map[n].ref_count <=
                (IF n \in DOMAIN pre.vif_map THEN pre.vif_map[n].ref_count ELSE 0)

====
